---- MODULE Spec2Model ----
(***************************************************************************)
(* Model of experiments/llm-file-prep/modify.py: paragraph segmentation,   *)
(* first-occurrence text replacement across runs, paragraph insertion and   *)
(* the patch applier that routes edits to them.                             *)
(*                                                                          *)
(* A text is a sequence of one-character strings.  A run is a record        *)
(* [text, fmt]; fmt stands for the run's character formatting (style, bold, *)
(* italic, underline), which the code only ever copies as a whole.  A       *)
(* paragraph is [node, runs]: node is the identity of its w:p element.  A   *)
(* document is the sequence of its body paragraphs in document order.       *)
(*                                                                          *)
(* doc0 is the document as loaded, pre the document before the last         *)
(* operation and call the record of that operation (its arguments and       *)
(* result), so that a state relates an operation's input to its output;     *)
(* prev is the record of the operation before it.                           *)
(***************************************************************************)
EXTENDS Integers, Sequences, FiniteSets, TLC

VARIABLES doc, doc0, window, segments, nedits, report, pc, pre, call, prev, nextNode

vars == <<doc, doc0, window, segments, nedits, report, pc, pre, call, prev, nextNode>>

(***************************************************************************)
(* Bounds of the model.                                                     *)
(***************************************************************************)
MaxParas == 3
MaxTextLen == 2
MaxWindow == 3
MaxRuns == 2
MaxRunLen == 2
MaxExcerptLen == 2
MaxNewLen == 1
MaxEdits == 2
MaxSuppliedParas == 1

\* The context window main() passes to make_segments.
Window == 80

Chars == {"a", "A"}

Min(a, b) == IF a < b THEN a ELSE b
Max(a, b) == IF a > b THEN a ELSE b

\* All texts over Chars of length at most n.
TextsUpTo(n) == UNION {[1..k -> Chars] : k \in 0..n}

\* All sequences over S of length at most n.
SeqsUpTo(S, n) == UNION {[1..k -> S] : k \in 0..n}

(***************************************************************************)
(* Python sequence primitives.                                              *)
(***************************************************************************)
\* A slice bound i of a sequence of length n, as Python clamps it.
PyClamp(i, n) == IF i < 0 THEN Max(i + n, 0) ELSE Min(i, n)

\* t[:stop]
SliceTo(t, stop) == SubSeq(t, 1, PyClamp(stop, Len(t)))

\* t[start:]
SliceFrom(t, start) == SubSeq(t, PyClamp(start, Len(t)) + 1, Len(t))

RECURSIVE Join(_)
\* "".join(texts)
Join(texts) == IF texts = <<>> THEN <<>> ELSE Head(texts) \o Join(Tail(texts))

\* Whether sub sits in t at 0-based offset i.
MatchAt(t, sub, i) ==
  /\ i + Len(sub) <= Len(t)
  /\ \A k \in 1..Len(sub) : t[i + k] = sub[k]

RECURSIVE FindFrom(_, _, _)
FindFrom(t, sub, i) ==
  IF i + Len(sub) > Len(t) THEN -1
  ELSE IF MatchAt(t, sub, i) THEN i
  ELSE FindFrom(t, sub, i + 1)

\* Mutant of find: the offset of the last occurrence (str.rfind).
RECURSIVE RFindFrom(_, _, _)
RFindFrom(t, sub, i) ==
  IF i < 0 THEN -1
  ELSE IF MatchAt(t, sub, i) THEN i
  ELSE RFindFrom(t, sub, i - 1)

find_last(t, sub) == RFindFrom(t, sub, Len(t) - Len(sub))

\* Mutant of find: a search that ignores letter case.
Lower(t) == [k \in 1..Len(t) |-> IF t[k] = "A" THEN "a" ELSE t[k]]

find_ignore_case(t, sub) == FindFrom(Lower(t), Lower(sub), 0)

\* str.find: 0-based offset of the first occurrence, -1 when there is none.
find(t, sub) == FindFrom(t, sub, 0)

\* seq[i] with Python's indexing: a negative i counts from the end; the
\* result is "IndexError" when i is outside -n..n-1.
PyIndexOk(i, n) == -n <= i /\ i < n
PyIndexPos(i, n) == IF i < 0 THEN i + n + 1 ELSE i + 1

(***************************************************************************)
(* Segment ids: f"p-{i+1:04d}".                                             *)
(***************************************************************************)
DigitChar(d) == <<"0", "1", "2", "3", "4", "5", "6", "7", "8", "9">>[d + 1]

RECURSIVE Decimal(_)
Decimal(n) == IF n < 10 THEN <<DigitChar(n)>>
              ELSE Decimal(n \div 10) \o <<DigitChar(n % 10)>>

RECURSIVE ZeroPad(_, _)
\* Left-pad with zeros to at least the given width.
ZeroPad(s, width) == IF Len(s) >= width THEN s ELSE ZeroPad(<<"0">> \o s, width)

FormatId(n) == <<"p", "-">> \o ZeroPad(Decimal(n), 4)

(***************************************************************************)
(* Documents.                                                               *)
(***************************************************************************)
\* Paragraph.text: the text of the paragraph's runs, in order.
ParaText(p) == Join([k \in 1..Len(p.runs) |-> p.runs[k].text])

enumerate_paragraphs(d) == d

\* A paragraph as loaded: its runs carry the given texts, each run with its
\* own formatting.
MkPara(node, texts) ==
  [node |-> node, runs |-> [k \in 1..Len(texts) |-> [text |-> texts[k], fmt |-> k]]]

\* A document as loaded from the given per-paragraph run texts.
MkDoc(paras) == [i \in 1..Len(paras) |-> MkPara(i, paras[i])]

(***************************************************************************)
(* make_segments                                                            *)
(***************************************************************************)
MakeSegment(i, p, w) ==
  LET full_text == ParaText(p)
      left == SliceTo(full_text, w)
      right == SliceFrom(full_text, 0 - w)
  IN  [id |-> FormatId(i + 1), kind |-> "paragraph", para_idx |-> i,
       text |-> full_text, context_left |-> left, context_right |-> right]

\* Mutant of make_segments: positions counted from 1 instead of 0.
make_segments_from_one(d, w) ==
  [k \in 1..Len(d) |-> MakeSegment(k, d[k], w)]

make_segments(d, w) ==
  LET paras == enumerate_paragraphs(d)
  IN  [k \in 1..Len(paras) |-> MakeSegment(k - 1, paras[k], w)]

(***************************************************************************)
(* Editing primitives.                                                      *)
(***************************************************************************)
remove_all_runs(p) == [p EXCEPT !.runs = <<>>]

\* Paragraph.add_run(text): a new last run with no formatting of its own.
add_run(p, text) == [p EXCEPT !.runs = Append(@, [text |-> text, fmt |-> 0])]

\* The best-effort copy of style, bold, italic and underline from src to the
\* paragraph's last run.
copy_run_style(p, src) == [p EXCEPT !.runs[Len(p.runs)].fmt = src.fmt]

RECURSIVE FirstAffectedFrom(_, _, _, _, _)
\* The scan for the first run overlapping [start, end); ri is 0-based and
\* pos the offset of run ri; -1 stands for None.
FirstAffectedFrom(runs, ri, pos, start, end) ==
  IF ri >= Len(runs) THEN -1
  ELSE LET nxt == pos + Len(runs[ri + 1].text)
       IN  IF nxt > start /\ pos < end THEN ri
           ELSE FirstAffectedFrom(runs, ri + 1, nxt, start, end)

first_run_idx(runs, start, end) ==
  LET r == FirstAffectedFrom(runs, 0, 0, start, end)
  IN  IF r = -1 THEN 0 ELSE r

\* replace_first_occurrence_in_runs: the result [ok, p] is the returned flag
\* and the paragraph as the call leaves it.
replace_first_occurrence_in_runs(p, old_excerpt, new_text) ==
  IF old_excerpt = <<>> THEN [ok |-> FALSE, p |-> p]
  ELSE
    LET runs == p.runs
        concatenated == Join([k \in 1..Len(runs) |-> runs[k].text])
        idx == find(concatenated, old_excerpt)
    IN  IF idx < 0 THEN [ok |-> FALSE, p |-> p]
        ELSE
          LET start == idx
              end == idx + Len(old_excerpt)
              new_para_text ==
                SliceTo(concatenated, start) \o new_text \o SliceFrom(concatenated, end)
              rebuilt == add_run(remove_all_runs(p), new_para_text)
          IN  [ok |-> TRUE,
               p |-> IF runs # <<>>
                     THEN copy_run_style(rebuilt, runs[first_run_idx(runs, start, end) + 1])
                     ELSE rebuilt]

\* Mutant of addnext: the new element becomes the sibling right before
\* paragraph k (addprevious).
addnext_before(d, k, new_p) == SubSeq(d, 1, k - 1) \o <<new_p>> \o SubSeq(d, k, Len(d))

\* Mutant of addnext: the new element is appended to the end of the body.
addnext_at_end(d, k, new_p) == Append(d, new_p)

\* p_el.addnext(new_p_el): new_p becomes the sibling right after paragraph k
\* (1-based) of the body.
addnext(d, k, new_p) == SubSeq(d, 1, k) \o <<new_p>> \o SubSeq(d, k + 1, Len(d))

\* insert_paragraph_after on paragraph k (1-based) of document d; node is the
\* identity of the created element.  The result is the document afterwards;
\* the returned paragraph is its element k + 1.
insert_paragraph_after(d, k, text, copy_style, node) ==
  LET paragraph == d[k]
      new_p == [node |-> node, runs |-> <<>>]
      new_para ==
        IF copy_style /\ paragraph.runs # <<>>
        THEN copy_run_style(add_run(new_p, text), paragraph.runs[1])
        ELSE add_run(new_p, text)
  IN  addnext(d, k, new_para)

(***************************************************************************)
(* Patch application.                                                       *)
(***************************************************************************)
\* Python's None as an edit id (no id is a text of this shape).
None == <<"None">>

\* dict.get(key, default) on an edit; an edit is a function from the keys it
\* holds to their values.
get(e, key, default) == IF key \in DOMAIN e THEN e[key] ELSE default

\* {s.id: s for s in segments}: of two segments with one id the later wins.
seg_by_id(segs) ==
  [i \in {segs[k].id : k \in DOMAIN segs} |->
     segs[CHOOSE k \in DOMAIN segs :
            /\ segs[k].id = i
            /\ \A j \in DOMAIN segs : segs[j].id = i => j <= k]]

\* Mutant of record_skip: the entry replaces the list instead of joining it.
record_skip_overwrite(rep, seg_id, reason) ==
  [rep EXCEPT !.skipped = <<[id |-> seg_id, reason |-> reason]>>]

\* report["skipped"].append({"id": seg_id, "reason": reason})
record_skip(rep, seg_id, reason) ==
  [rep EXCEPT !.skipped = Append(@, [id |-> seg_id, reason |-> reason])]

\* report["applied"].append(edit)
record_applied(rep, edit) == [rep EXCEPT !.applied = Append(@, edit)]

\* Mutant of resolve: the paragraph the segment was extracted from is looked
\* up by its identity, wherever it now stands (None when it is not there).
resolve_by_node(d, para_idx) ==
  IF \E k \in 1..Len(d) : d[k].node = para_idx + 1
  THEN CHOOSE k \in 1..Len(d) : d[k].node = para_idx + 1
  ELSE 0

\* doc.paragraphs[para_idx]: the 1-based position of the paragraph the index
\* selects, 0 when Python raises IndexError.
resolve(d, para_idx) ==
  IF PyIndexOk(para_idx, Len(d)) THEN PyIndexPos(para_idx, Len(d)) ELSE 0

\* The outcome of an edit that is skipped: the document is left as it is.
Skipped(d, rep, seg_id, reason, para_idx, k) ==
  [doc |-> d, report |-> record_skip(rep, seg_id, reason), fate |-> reason,
   para_idx |-> para_idx, pos |-> k]

\* One iteration of the loop of apply_patch_to_doc: edit applied to document
\* d with report rep; node is the identity a created paragraph would get.
\* pos is the 1-based position of the paragraph the edit resolved to (0 when
\* it resolved to none), para_idx the index its segment holds.
apply_edit(d, segs, rep, edit, node) ==
  LET seg_id == get(edit, "id", None)
      op == get(edit, "op", "None")
      by_id == seg_by_id(segs)
  IN
  IF seg_id = None \/ seg_id = <<>> \/ seg_id \notin DOMAIN by_id
  THEN Skipped(d, rep, seg_id, "unknown_id", 0, 0)
  ELSE
    LET seg == by_id[seg_id] IN
    IF resolve(d, seg.para_idx) = 0
    THEN Skipped(d, rep, seg_id, "para_idx_out_of_range", seg.para_idx, 0)
    ELSE
      LET k == resolve(d, seg.para_idx)
          p == d[k]
      IN
      IF op = "replace_text" THEN
        LET old_excerpt == get(edit, "old_excerpt", <<>>)
            new_text == get(edit, "new_text", <<>>)
        IN  IF new_text = <<>>
            THEN Skipped(d, rep, seg_id, "empty_new_text", seg.para_idx, k)
            ELSE LET r == replace_first_occurrence_in_runs(p, old_excerpt, new_text)
                 IN  IF r.ok
                     THEN [doc |-> [d EXCEPT ![k] = r.p],
                           report |-> record_applied(rep, edit), fate |-> "applied",
                           para_idx |-> seg.para_idx, pos |-> k]
                     ELSE Skipped(d, rep, seg_id, "old_excerpt_not_found", seg.para_idx, k)
      ELSE IF op = "insert_after" THEN
        LET new_text == get(edit, "new_text", <<>>)
        IN  IF new_text = <<>>
            THEN Skipped(d, rep, seg_id, "empty_new_text", seg.para_idx, k)
            ELSE [doc |-> insert_paragraph_after(d, k, new_text, TRUE, node),
                  report |-> record_applied(rep, edit), fate |-> "applied",
                  para_idx |-> seg.para_idx, pos |-> k]
      ELSE Skipped(d, rep, seg_id, "unsupported_op:" \o op, seg.para_idx, k)

NoReport == [applied |-> <<>>, skipped |-> <<>>]
NoCall == [op |-> "none"]

(***************************************************************************)
(* Specification SpecSegments: make_segments called on a document.          *)
(***************************************************************************)
\* Paragraphs with no run, or one run holding a text of at most MaxTextLen.
SegParas == {<<>>} \cup {<<t>> : t \in TextsUpTo(MaxTextLen)}

InitSegments ==
  /\ doc \in {MkDoc(ps) : ps \in SeqsUpTo(SegParas, MaxParas)}
  /\ window \in 0..MaxWindow
  /\ doc0 = doc
  /\ segments = <<>>
  /\ nedits = 0
  /\ report = NoReport
  /\ pc = "start"
  /\ pre = doc
  /\ call = NoCall
  /\ prev = NoCall
  /\ nextNode = Len(doc) + 1

CallMakeSegments ==
  /\ pc = "start"
  /\ segments' = make_segments(doc, window)
  /\ call' = [op |-> "make_segments"]
  /\ pc' = "returned"
  /\ UNCHANGED <<doc, doc0, window, nedits, report, pre, prev, nextNode>>

NextSegments == CallMakeSegments

SpecSegments == InitSegments /\ [][NextSegments]_vars

(***************************************************************************)
(* Specification SpecReplace: replace_first_occurrence_in_runs called on a  *)
(* paragraph.                                                               *)
(***************************************************************************)
InitReplace ==
  /\ doc \in {MkDoc(<<texts>>) : texts \in SeqsUpTo(TextsUpTo(MaxRunLen), MaxRuns)}
  /\ doc0 = doc
  /\ window = Window
  /\ segments = <<>>
  /\ nedits = 0
  /\ report = NoReport
  /\ pc = "start"
  /\ pre = doc
  /\ call = NoCall
  /\ prev = NoCall
  /\ nextNode = Len(doc) + 1

CallReplace ==
  /\ pc = "start"
  /\ \E old_excerpt \in TextsUpTo(MaxExcerptLen), new_text \in TextsUpTo(MaxNewLen) :
       LET r == replace_first_occurrence_in_runs(doc[1], old_excerpt, new_text)
       IN  /\ doc' = [doc EXCEPT ![1] = r.p]
           /\ call' = [op |-> "replace", old_excerpt |-> old_excerpt,
                       new_text |-> new_text, ret |-> r.ok]
  /\ pre' = doc
  /\ pc' = "returned"
  /\ UNCHANGED <<doc0, window, segments, nedits, report, prev, nextNode>>

NextReplace == CallReplace

SpecReplace == InitReplace /\ [][NextReplace]_vars

(***************************************************************************)
(* Specification SpecInsert: insert_paragraph_after called on a paragraph   *)
(* of a document.                                                           *)
(***************************************************************************)
InitInsert ==
  /\ doc \in {MkDoc(ps) : ps \in SeqsUpTo(SegParas, MaxParas) \ {<<>>}}
  /\ doc0 = doc
  /\ window = Window
  /\ segments = <<>>
  /\ nedits = 0
  /\ report = NoReport
  /\ pc = "start"
  /\ pre = doc
  /\ call = NoCall
  /\ prev = NoCall
  /\ nextNode = Len(doc) + 1

CallInsert ==
  /\ pc = "start"
  /\ \E k \in 1..Len(doc), text \in TextsUpTo(MaxNewLen), copy_style \in BOOLEAN :
       /\ doc' = insert_paragraph_after(doc, k, text, copy_style, nextNode)
       /\ call' = [op |-> "insert", k |-> k, text |-> text,
                   copy_style |-> copy_style, node |-> nextNode]
  /\ nextNode' = nextNode + 1
  /\ pre' = doc
  /\ pc' = "returned"
  /\ UNCHANGED <<doc0, window, segments, nedits, report, prev>>

NextInsert == CallInsert

SpecInsert == InitInsert /\ [][NextInsert]_vars

(***************************************************************************)
(* Specification Spec: a document is loaded, a segment list is obtained and *)
(* apply_patch_to_doc works through a patch, one edit per step.  The patch  *)
(* is read edit by edit, so each edit is chosen when the loop reaches it    *)
(* and Return is the loop finding no further edit.                          *)
(***************************************************************************)
\* The paragraphs of the documents patched: one whose two runs read "a" and
\* "Aa", and one without runs.
TwoRuns == <<(<<"a">>), (<<"A", "a">>)>>
NoRuns == <<>>

\* The documents patched: up to MaxParas paragraphs of two runs, at most one
\* of them replaced by a paragraph without runs.
PatchDocs ==
  UNION {{[i \in 1..n |-> TwoRuns]} \cup {[i \in 1..n |-> IF i = e THEN NoRuns ELSE TwoRuns] : e \in 1..n}
         : n \in 0..MaxParas}

\* segs with the para_idx of its segment k set to v.
Retarget(segs, k, v) == [segs EXCEPT ![k].para_idx = v]

\* The segment lists a caller may hand over with document d besides the one
\* just extracted from it: the list extracted while d still had one more
\* paragraph at its end, and lists whose last segment holds a negative
\* para_idx.
SuppliedSegmentLists(d) ==
  LET fresh == make_segments(d, Window)
  IN  {make_segments(Append(d, MkPara(Len(d) + 1, <<>>)), Window)}
        \cup (IF fresh = <<>> THEN {}
              ELSE {Retarget(fresh, Len(fresh), v) : v \in {-1, -1 - Len(d)}})

\* The shapes of edit a patch is made of.
EditShapes ==
  { [op |-> "replace_text", old_excerpt |-> <<"a">>, new_text |-> <<"A">>],
    [op |-> "replace_text", old_excerpt |-> <<>>, new_text |-> <<"A">>],
    [op |-> "replace_text", new_text |-> <<"A">>],
    [op |-> "replace_text", old_excerpt |-> <<"a">>, new_text |-> <<>>],
    [op |-> "insert_after", new_text |-> <<"a">>],
    [op |-> "insert_after"],
    [op |-> "delete_paragraph", new_text |-> <<"A">>],
    [new_text |-> <<"A">>] }

\* The shapes tried on an id that names no segment.
StrayShapes ==
  { [op |-> "insert_after", new_text |-> <<"a">>],
    [op |-> "delete_paragraph", new_text |-> <<"A">>] }

\* The edit of shape e on segment id i.
WithId(e, i) == [key \in DOMAIN e \cup {"id"} |-> IF key = "id" THEN i ELSE e[key]]

\* The edits a patch may hold: every shape on every segment's id, and the
\* stray shapes with no id and with the id one past the segments'.
Edits(segs) ==
  {WithId(e, FormatId(n)) : e \in EditShapes, n \in 1..Len(segs)}
    \cup StrayShapes
    \cup {WithId(e, FormatId(Len(segs) + 1)) : e \in StrayShapes}

Init ==
  /\ doc \in {MkDoc(ps) : ps \in PatchDocs}
  /\ doc0 = doc
  /\ window = Window
  /\ segments = <<>>
  /\ nedits = 0
  /\ report = NoReport
  /\ pc = "start"
  /\ pre = doc
  /\ call = NoCall
  /\ prev = NoCall
  /\ nextNode = Len(doc) + 1

\* main: segments = make_segments(doc, window=80)
Extract ==
  /\ pc = "start"
  /\ segments' = make_segments(doc, window)
  /\ pc' = "patching"
  /\ UNCHANGED <<doc, doc0, window, nedits, report, pre, call, prev, nextNode>>

\* apply_patch_to_doc called with a segment list from elsewhere, on a
\* document of at most MaxSuppliedParas paragraphs.
SupplySegments ==
  /\ pc = "start"
  /\ Len(doc) <= MaxSuppliedParas
  /\ segments' \in SuppliedSegmentLists(doc)
  /\ pc' = "patching"
  /\ UNCHANGED <<doc, doc0, window, nedits, report, pre, call, prev, nextNode>>

\* for edit in patch.get("edits", []): one iteration.
ProcessEdit ==
  /\ pc = "patching"
  /\ nedits < MaxEdits
  /\ \E edit \in Edits(segments) :
       LET r == apply_edit(doc, segments, report, edit, nextNode)
       IN  /\ doc' = r.doc
           /\ report' = r.report
           /\ call' = [op |-> "edit", edit |-> edit, fate |-> r.fate,
                       para_idx |-> r.para_idx, pos |-> r.pos]
           /\ nextNode' = IF Len(r.doc) > Len(doc) THEN nextNode + 1 ELSE nextNode
  /\ pre' = doc
  /\ prev' = call
  /\ nedits' = nedits + 1
  /\ UNCHANGED <<doc0, window, segments, pc>>

\* return report
Return ==
  /\ pc = "patching"
  /\ pc' = "done"
  /\ UNCHANGED <<doc, doc0, window, segments, nedits, report, pre, call, prev, nextNode>>

Next == Extract \/ SupplySegments \/ ProcessEdit \/ Return

Spec == Init /\ [][Next]_vars

\* Numeric value of a decimal digit string (the inverse of the formatting).
DigitValue(c) == CHOOSE d \in 0..9 : DigitChar(d) = c

RECURSIVE ParseDecimal(_)
ParseDecimal(s) ==
  IF s = <<>> THEN 0
  ELSE 10 * ParseDecimal(SubSeq(s, 1, Len(s) - 1)) + DigitValue(s[Len(s)])

IsDigit(c) == \E d \in 0..9 : DigitChar(d) = c

\* Strict lexicographic order on equally long digit strings.
DigitsLess(a, b) ==
  \E k \in 1..Len(a) :
    /\ \A j \in 1..(k - 1) : a[j] = b[j]
    /\ DigitValue(a[k]) < DigitValue(b[k])

\* An id of the form p-NNNN whose four digits spell the number n.
IsIdOf(id, n) ==
  /\ Len(id) = 6
  /\ id[1] = "p" /\ id[2] = "-"
  /\ \A k \in 3..6 : IsDigit(id[k])
  /\ ParseDecimal(SubSeq(id, 3, 6)) = n

\* C1: make_segments returns exactly one Segment per paragraph, in document
\* order; the Segment at 0-based position i has para_idx = i, id = "p-" then
\* i+1 zero-padded to 4 digits, kind = "paragraph" and the paragraph's full
\* text; ids are pairwise distinct and strictly increasing; the document is
\* not modified.
C1_OneSegmentPerParagraph ==
  (pc = "returned" /\ call.op = "make_segments") =>
    /\ Len(segments) = Len(pre)
    /\ \A k \in 1..Len(segments) :
         /\ segments[k].para_idx = k - 1
         /\ IsIdOf(segments[k].id, k)
         /\ segments[k].kind = "paragraph"
         /\ segments[k].text = ParaText(pre[k])
    /\ \A j, k \in 1..Len(segments) :
         j < k => /\ segments[j].id # segments[k].id
                  /\ DigitsLess(SubSeq(segments[j].id, 3, 6), SubSeq(segments[k].id, 3, 6))
    /\ doc = pre

\* C1 witness: a document of two paragraphs with different non-empty texts
\* has been segmented.
C1_Witness ==
  /\ pc = "returned" /\ call.op = "make_segments"
  /\ Len(segments) = 2
  /\ segments[1].text # <<>>
  /\ segments[2].text # <<>>
  /\ segments[1].text # segments[2].text

\* C2: for every paragraph text t and window w >= 0, context_left is the
\* first min(w, len(t)) characters of t and context_right the last
\* min(w, len(t)) characters of t; an empty paragraph yields empty text and
\* contexts.
C2_ContextWindows ==
  (pc = "returned" /\ call.op = "make_segments") =>
    \A k \in 1..Len(segments) :
      LET t == ParaText(pre[k])
          n == Min(window, Len(t))
      IN  /\ segments[k].context_left = SubSeq(t, 1, n)
          /\ segments[k].context_right = SubSeq(t, Len(t) - n + 1, Len(t))
          /\ (t = <<>> => /\ segments[k].text = <<>>
                          /\ segments[k].context_left = <<>>
                          /\ segments[k].context_right = <<>>)

\* Supplement to C2: the same statement restricted to windows of at least 1.
C2_PositiveWindow ==
  (pc = "returned" /\ call.op = "make_segments" /\ window >= 1) =>
    \A k \in 1..Len(segments) :
      LET t == ParaText(pre[k])
          n == Min(window, Len(t))
      IN  /\ segments[k].context_left = SubSeq(t, 1, n)
          /\ segments[k].context_right = SubSeq(t, Len(t) - n + 1, Len(t))

\* Whether sub occupies t from 0-based offset i.
OccursAt(t, sub, i) ==
  /\ i >= 0
  /\ i + Len(sub) <= Len(t)
  /\ SubSeq(t, i + 1, i + Len(sub)) = sub

Occurs(t, sub) == \E i \in 0..Len(t) : OccursAt(t, sub, i)

\* The smallest offset at which sub occurs in t.
FirstOffset(t, sub) ==
  CHOOSE i \in 0..Len(t) :
    /\ OccursAt(t, sub, i)
    /\ \A j \in 0..(i - 1) : ~OccursAt(t, sub, j)

\* The texts of a paragraph's runs.
RunTexts(p) == [k \in 1..Len(p.runs) |-> p.runs[k].text]

\* C3: when the concatenated run text c contains a non-empty old_excerpt,
\* replace_first_occurrence_in_runs returns true and the paragraph's text
\* becomes c[0..s) + new_text + c[s+len(old_excerpt)..], s the smallest offset
\* at which old_excerpt occurs in c.
C3_ReplacesFirstOccurrence ==
  (pc = "returned" /\ call.op = "replace") =>
    LET c == Join(RunTexts(pre[1]))
        old == call.old_excerpt
    IN  (old # <<>> /\ Occurs(c, old)) =>
          LET s == FirstOffset(c, old)
          IN  /\ call.ret = TRUE
              /\ ParaText(doc[1]) =
                   SubSeq(c, 1, s) \o call.new_text \o SubSeq(c, s + Len(old) + 1, Len(c))

\* C3 witness: the excerpt occurred twice in the paragraph, its first
\* occurrence spanning two runs, and was replaced by a different text.
C3_Witness ==
  /\ pc = "returned" /\ call.op = "replace" /\ call.ret = TRUE
  /\ call.new_text # call.old_excerpt
  /\ Len(pre[1].runs) = 2
  /\ LET c == Join(RunTexts(pre[1]))
         s == FirstOffset(c, call.old_excerpt)
     IN  /\ \E i \in 0..Len(c) : i # s /\ OccursAt(c, call.old_excerpt, i)
         /\ s < Len(pre[1].runs[1].text)
         /\ s + Len(call.old_excerpt) > Len(pre[1].runs[1].text)

\* C4: when old_excerpt is empty, or is no contiguous substring of the
\* concatenated run texts (an excerpt matching only with different letter
\* case included), replace_first_occurrence_in_runs returns false and the
\* paragraph's run list is unchanged.
C4_NoMatchNoChange ==
  (pc = "returned" /\ call.op = "replace") =>
    LET c == Join(RunTexts(pre[1]))
        old == call.old_excerpt
    IN  (old = <<>> \/ ~Occurs(c, old)) =>
          /\ call.ret = FALSE
          /\ doc[1].runs = pre[1].runs
          /\ doc = pre

\* C4 witness: a two-run paragraph was searched for a non-empty excerpt that
\* occurs in it only with different letter case; the call returned false.
C4_Witness ==
  /\ pc = "returned" /\ call.op = "replace" /\ call.ret = FALSE
  /\ call.old_excerpt # <<>>
  /\ Len(pre[1].runs) = 2
  /\ ~Occurs(Join(RunTexts(pre[1])), call.old_excerpt)
  /\ Occurs(Lower(Join(RunTexts(pre[1]))), Lower(call.old_excerpt))

\* The sequence s without its element k.
Without(s, k) == SubSeq(s, 1, k - 1) \o SubSeq(s, k + 1, Len(s))

\* C5: insert_paragraph_after on the paragraph at position k adds exactly one
\* paragraph, at position k+1, whose text is the requested text whether or
\* not the source paragraph has runs; all pre-existing paragraphs keep their
\* text and relative order.
C5_InsertAfter ==
  (pc = "returned" /\ call.op = "insert") =>
    /\ Len(doc) = Len(pre) + 1
    /\ doc[call.k].node = pre[call.k].node
    /\ doc[call.k + 1].node = call.node
    /\ \A j \in 1..Len(pre) : pre[j].node # call.node
    /\ ParaText(doc[call.k + 1]) = call.text
    /\ Without(doc, call.k + 1) = pre

\* C5 witness: a paragraph was inserted after a paragraph that has no runs
\* and is not the last one of the document.
C5_Witness ==
  /\ pc = "returned" /\ call.op = "insert"
  /\ call.k < Len(pre)
  /\ pre[call.k].runs = <<>>
  /\ call.text # <<>>

\* The entry the report holds last in the given list.
LastOf(seq) == seq[Len(seq)]

\* C6: every edit of a patch is processed, in patch order and without
\* aborting, and produces exactly one report entry, appended either to
\* applied (the edit itself) or to skipped ({id, reason}), so that
\* len(applied) + len(skipped) is the number of edits processed, both lists
\* keep patch order, and the loop goes on after a skipped edit.
C6_OneEntryPerEdit ==
  /\ [](Len(report.applied) + Len(report.skipped) = nedits)
  /\ [][nedits' # nedits =>
          /\ nedits' = nedits + 1
          /\ pc' = "patching"
          /\ \/ /\ report'.applied = Append(report.applied, call'.edit)
                /\ report'.skipped = report.skipped
                /\ call'.fate = "applied"
             \/ /\ report'.skipped =
                     Append(report.skipped,
                            [id |-> get(call'.edit, "id", None), reason |-> call'.fate])
                /\ report'.applied = report.applied
                /\ call'.fate # "applied"]_vars

\* C6 witness: an edit was applied right after an edit that was skipped.
C6_Witness ==
  /\ call.op = "edit" /\ call.fate = "applied"
  /\ prev.op = "edit" /\ prev.fate # "applied"
  /\ Len(report.skipped) >= 1
  /\ Len(report.applied) >= 1

\* Whether some segment carries the edit's id.
KnownId(edit, segs) ==
  /\ "id" \in DOMAIN edit
  /\ \E k \in DOMAIN segs : segs[k].id = edit.id

\* The segment an edit names.
SegmentOf(edit, segs) == segs[CHOOSE k \in DOMAIN segs : segs[k].id = edit.id]

\* The outcome the ordered checks give an edit on document d.
ClaimedFate(edit, d, segs) ==
  IF ~KnownId(edit, segs) THEN "unknown_id"
  ELSE
    LET seg == SegmentOf(edit, segs) IN
    IF seg.para_idx \notin 0..(Len(d) - 1) THEN "para_idx_out_of_range"
    ELSE IF "op" \notin DOMAIN edit THEN "unsupported_op:None"
    ELSE IF edit.op \notin {"replace_text", "insert_after"}
      THEN "unsupported_op:" \o edit.op
    ELSE IF "new_text" \notin DOMAIN edit \/ edit.new_text = <<>> THEN "empty_new_text"
    ELSE IF /\ edit.op = "replace_text"
            /\ \/ "old_excerpt" \notin DOMAIN edit
               \/ edit.old_excerpt = <<>>
               \/ ~Occurs(ParaText(d[seg.para_idx + 1]), edit.old_excerpt)
      THEN "old_excerpt_not_found"
    ELSE "applied"

\* The last edit's outcome is the claimed one, and the report records it.
FateAsClaimed ==
  /\ call.fate = ClaimedFate(call.edit, pre, segments)
  /\ call.fate = "applied" =>
       /\ report.applied # <<>>
       /\ LastOf(report.applied) = call.edit
  /\ call.fate # "applied" =>
       /\ report.skipped # <<>>
       /\ LastOf(report.skipped).reason = call.fate

C7_NoNegativeIndex ==
  (call.op = "edit" /\ \A k \in DOMAIN segments : segments[k].para_idx >= 0) =>
    FateAsClaimed

C8_SkippedLeavesDocument ==
  (call.op = "edit" /\ call.fate # "applied") => doc = pre

\* Supplement to C8: an edit whose segment's para_idx is at least the
\* current paragraph count is skipped with reason para_idx_out_of_range.
C8_TooLargeSkipped ==
  (/\ call.op = "edit"
   /\ KnownId(call.edit, segments)
   /\ SegmentOf(call.edit, segments).para_idx >= Len(pre)) =>
     /\ call.fate = "para_idx_out_of_range"
     /\ doc = pre

\* The segment list is the one make_segments gives for the loaded document.
FreshSegments == segments = make_segments(doc0, Window)

\* The 1-based number n of the segment id p-000n an edit carries.
SegNo(edit) == ParseDecimal(SubSeq(edit.id, 3, Len(edit.id)))

\* Text t with the first occurrence of old replaced by new.
FirstReplaced(t, old, new) ==
  LET s == FirstOffset(t, old)
  IN  SubSeq(t, 1, s) \o new \o SubSeq(t, s + Len(old) + 1, Len(t))

\* The patch read so far is [A, B]: A a replace_text on a segment whose
\* paragraph holds old_excerpt, with non-empty new_text, B an insert_after
\* with non-empty new_text, both on segments of the freshly segmented
\* document.
ReplaceThenInsert ==
  /\ nedits = 2
  /\ prev.op = "edit" /\ call.op = "edit"
  /\ FreshSegments
  /\ LET A == prev.edit
         B == call.edit
     IN  /\ KnownId(A, segments) /\ KnownId(B, segments)
         /\ "op" \in DOMAIN A /\ A.op = "replace_text"
         /\ "new_text" \in DOMAIN A /\ A.new_text # <<>>
         /\ "old_excerpt" \in DOMAIN A /\ A.old_excerpt # <<>>
         /\ Occurs(ParaText(doc0[SegNo(A)]), A.old_excerpt)
         /\ "op" \in DOMAIN B /\ B.op = "insert_after"
         /\ "new_text" \in DOMAIN B /\ B.new_text # <<>>

\* The result of the patch [A, B] with the replaced paragraph at 1-based
\* position at: n+1 paragraphs, the replaced text there, the new paragraph
\* right after original paragraph j, every other original paragraph with its
\* text and in its order, and the report {applied: [A, B], skipped: []}.
PatchResult(at) ==
  LET A == prev.edit
      B == call.edit
      i == SegNo(A)
      j == SegNo(B)
  IN  /\ Len(doc) = Len(doc0) + 1
      /\ ParaText(doc[at]) = FirstReplaced(ParaText(doc0[i]), A.old_excerpt, A.new_text)
      /\ doc[at].node = doc0[i].node
      /\ ParaText(doc[j + 1]) = B.new_text
      /\ \A k \in 1..Len(doc0) : doc0[k].node # doc[j + 1].node
      /\ doc[j].node = doc0[j].node
      /\ [k \in 1..Len(doc0) |-> Without(doc, j + 1)[k].node] =
           [k \in 1..Len(doc0) |-> doc0[k].node]
      /\ \A k \in 1..Len(doc0) :
           k # i => ParaText(Without(doc, j + 1)[k]) = ParaText(doc0[k])
      /\ report = [applied |-> <<A, B>>, skipped |-> <<>>]

\* C9 as claimed: for the patch [A, B] on segments i and j (any i, j in
\* 1..n) the result has n+1 paragraphs, the paragraph at index i-1 holds the
\* original text with the first occurrence of the excerpt replaced, the new
\* paragraph sits at index j, the other paragraphs keep text and order, and
\* the report is {applied: [A, B], skipped: []}.
C9_AsClaimed ==
  ReplaceThenInsert => PatchResult(SegNo(prev.edit))

\* C9 amended: as claimed, except that the replaced paragraph is at index
\* i-1 only when j >= i; when j < i the insertion has moved it to index i.
C9_ReplaceThenInsert ==
  ReplaceThenInsert =>
    PatchResult(IF SegNo(call.edit) < SegNo(prev.edit)
                THEN SegNo(prev.edit) + 1
                ELSE SegNo(prev.edit))

\* C9 witness: the patch [A, B] has been applied with B's segment before A's.
C9_Witness ==
  /\ ReplaceThenInsert
  /\ SegNo(call.edit) < SegNo(prev.edit)
  /\ call.fate = "applied"
  /\ Len(doc) = Len(doc0) + 1

\* The last edit came right after the only insertion so far, an applied
\* insert_after, and resolved to a paragraph.
AfterOneInsert ==
  /\ call.op = "edit" /\ prev.op = "edit"
  /\ prev.fate = "applied" /\ prev.edit.op = "insert_after"
  /\ Len(pre) = Len(doc0) + 1
  /\ call.pos # 0
  /\ FreshSegments

\* C10: para_idx values are never renumbered within one call.  After an
\* applied insert_after on the segment with para_idx k, an edit on a segment
\* with para_idx j > k resolves to the paragraph now at index j: the original
\* paragraph j-1, or the inserted paragraph when j = k+1; an edit on a
\* segment with para_idx j <= k resolves to its original paragraph; and a
\* second insert_after on the same segment puts its paragraph directly after
\* the segment's paragraph, before the first one's.
C10_IndicesNotRenumbered ==
  AfterOneInsert =>
    LET k == prev.para_idx
        j == call.para_idx
        target == pre[call.pos].node
        inserted == pre[k + 2].node
    IN  /\ call.pos = j + 1
        /\ \A m \in 1..Len(doc0) : doc0[m].node # inserted
        /\ j > k + 1 => target = doc0[j].node
        /\ j = k + 1 => target = inserted
        /\ j <= k => target = doc0[j + 1].node
        /\ (j = k /\ call.fate = "applied" /\ call.edit.op = "insert_after") =>
             /\ doc[k + 1].node = doc0[k + 1].node
             /\ doc[k + 3].node = inserted
             /\ ParaText(doc[k + 3]) = prev.edit.new_text
             /\ doc[k + 2].node # inserted
             /\ \A m \in 1..Len(pre) : pre[m].node # doc[k + 2].node
             /\ ParaText(doc[k + 2]) = call.edit.new_text

\* C10 witness: after an insertion, a replace_text on a segment two or more
\* places further on was applied to the paragraph before the one the segment
\* was extracted from.
C10_Witness ==
  /\ AfterOneInsert
  /\ call.para_idx > prev.para_idx + 1
  /\ call.fate = "applied"
  /\ call.edit.op = "replace_text"
  /\ pre[call.pos].node = doc0[call.para_idx].node

====
